---- MODULE Spec2Model ----
(***************************************************************************)
(* Model of Subtitle_Auto_Translator.py: the Translator object (stop flag, *)
(* counters, credential, executor), the controller operations that the GUI *)
(* thread calls on it, and the translate_srt workers that the executor     *)
(* runs.  Each worker step is one access to the shared fields, so that the *)
(* interleavings of several workers and the GUI thread are explored.       *)
(***************************************************************************)
EXTENDS Integers, Sequences, FiniteSets, TLC

\* ---------------------------------------------------------------- bounds
MaxCalls == 2          \* start_translation calls explored
MaxEntries == 2        \* entries of a subtitle file
MaxExecutors == 2      \* executors created (constructor + set_thread_count)
MaxThreads == 2        \* largest max_workers entered

\* ------------------------------------------------------------- constants
STATUS_IDLE == "Status: Idle"
STATUS_TRANSLATION_COMPLETED == "Translation completed"
STATUS_TRANSLATION_STARTED == "Translation started"

None == <<"None">>
Tasks == 1..MaxCalls

\* A text is a sequence of characters.  Every entry of a parsed file
\* carries OrigText; the service answers with one of TransTexts.
OrigText == <<"o">>
TransTexts == {<<"t", "t">>}
Failures == {"HTTPError", "RequestException", "Exception"}

\* Credentials: None (deleted), the empty string, a blank string, a key.
Keys == {None, <<>>, <<" ">>, <<"k">>}
Exts == {".srt", ".SRT", ".ass"}

VARIABLES
    deepl_api_key,        \* self.deepl_api_key
    config_has_DeepL,     \* 'DeepL' in self.config
    should_stop,          \* self.should_stop
    translated_count,     \* self.translated_count
    used_quota,           \* self.used_quota
    current_translation,  \* self.current_translation: 0 (None) or a task
    executor,             \* self.executor: index into pool
    pool,                 \* max_workers of every executor created so far
    nCalls,               \* start_translation calls made so far
    pc,                   \* position of each submitted translate_srt call
    task_exec,            \* executor a task was submitted to
    subtitles,            \* the worker's parsed document
    total_subtitles,      \* the worker's total_subtitles
    idx,                  \* the worker's loop index i
    local,                \* value a worker has read and not yet written back
    requests,             \* entries for which requests.post was called
    auth_key,             \* data['auth_key'] of the worker's latest request
    outcomes,             \* "ok" or "failed" for each request, in order
    quota_cb,             \* values passed to quota_callback
    progress_cb,          \* fractions passed to progress_callback
    status_cb,            \* values passed to status_callback
    error_cb,             \* number of error_callback deliveries
    saved,                \* <<>> or <<document>> written to output_path
    sleeps,               \* number of time.sleep(SLEEP_TIME) calls of each task
    status_label,         \* text of TranslatorGUI.status_label
    stopped_during,       \* stop_translation was called while the task was submitted and not ended
    overlapped            \* another worker was active during the task's run

shared == <<deepl_api_key, config_has_DeepL, should_stop, translated_count,
            used_quota, current_translation, executor, pool, nCalls>>
worker == <<pc, task_exec, subtitles, total_subtitles, idx, local>>
observer == <<requests, auth_key, outcomes, quota_cb, progress_cb, status_cb, error_cb, saved, sleeps>>
gui == <<status_label>>
history == <<stopped_during, overlapped>>
vars == <<shared, worker, observer, gui, history>>

\* ------------------------------------------------------------ pure parts
IsSpace(c) == c = " "

RECURSIVE LStrip(_)
LStrip(s) == IF s # <<>> /\ IsSpace(Head(s)) THEN LStrip(Tail(s)) ELSE s

RECURSIVE RStrip(_)
RStrip(s) ==
    IF s # <<>> /\ IsSpace(s[Len(s)]) THEN RStrip(SubSeq(s, 1, Len(s) - 1)) ELSE s

\* str.strip()
Strip(s) == RStrip(LStrip(s))

\* Python truthiness of the credential: None and '' are falsy
Truthy(key) == key # None /\ key # <<>>

HasApiKey_truthy_only(key) == Truthy(key)

\* the negation of the test of start_translation
HasApiKey(key) == ~(~Truthy(key) \/ Len(Strip(key)) = 0)

\* str.lower() on the extensions explored
Lower(ext) == IF ext = ".SRT" THEN ".srt" ELSE ext

IsSrt(ext) == Lower(ext) = ".srt"

\* pysrt.open: the entries of a file with n entries
ParseDoc(n) ==
    [k \in 1..n |-> [index |-> k, start |-> 2 * k - 1, end |-> 2 * k, text |-> OrigText]]

\* (quota, used_quota)
get_quota == <<500000, used_quota>>

\* ---------------------------------------------------------- executor
ActivePcs == {"loop", "inflight", "uq_write", "tc_read", "tc_write",
              "quota_cb", "progress_cb", "status"}

Active(t) == pc[t] \in ActivePcs

\* a worker thread of the task's executor is free and the task is the
\* oldest pending work item of that executor
CanRun(t) ==
    /\ pc[t] = "pending"
    /\ Cardinality({u \in Tasks : Active(u) /\ task_exec[u] = task_exec[t]})
          < pool[task_exec[t]]
    /\ \A u \in Tasks : (u < t /\ task_exec[u] = task_exec[t]) => pc[u] # "pending"


\* ------------------------------------------------------- code fragments
\* len(subtitle.text), the amount added to used_quota
QuotaAdded_one(tr) == 1

QuotaAdded(tr) == Len(tr)

\* self.translated_count += 1, applied to the value read
Incremented_not(c) == c

Incremented(c) == c + 1

\* "continue" in the three except clauses: the loop goes on
PcAfterFailure_abort == "returned"

PcAfterFailure == "loop"

\* self.translated_count / total_subtitles, kept as <<numerator, denominator>>
Fraction_of_index(count, total, i) == <<i, total>>

Fraction(count, total, i) == <<count, total>>

\* enumerate(subtitles, start=1): the step of the for statement
NextIndex_same(i) == i

NextIndex(i) == i + 1

\* subtitle.text = translation['translations'][0]['text']
Translated_retimed(subtitle, tr) == [subtitle EXCEPT !.text = tr, !.end = subtitle.start]

Translated(subtitle, tr) == [subtitle EXCEPT !.text = tr]

\* TranslatorGUI.update_status: the text status_label is set to
update_status(status) == "Status: " \o status

\* if self.should_stop: return
PcAfterStop_loop == "loop"

PcAfterStop == "returned"

\* what the return on should_stop leaves at output_path
SavedOnStop_saves(t) == <<subtitles[t]>>

SavedOnStop(t) == saved[t]

\* the status passed after the save
CompletedStatus_idle == "Status: Idle"

CompletedStatus == STATUS_TRANSLATION_COMPLETED

\* ------------------------------------------------------------------ Init
Init ==
    /\ deepl_api_key \in Keys \ {None}
    /\ config_has_DeepL = TRUE
    /\ should_stop = FALSE
    /\ translated_count = 0
    /\ used_quota = 0
    /\ current_translation = 0
    /\ executor = 1
    /\ pool \in {<<n>> : n \in 1..MaxThreads}
    /\ nCalls = 0
    /\ pc = [t \in Tasks |-> "none"]
    /\ task_exec = [t \in Tasks |-> 0]
    /\ subtitles = [t \in Tasks |-> <<>>]
    /\ total_subtitles = [t \in Tasks |-> 0]
    /\ idx = [t \in Tasks |-> 0]
    /\ local = [t \in Tasks |-> 0]
    /\ requests = [t \in Tasks |-> <<>>]
    /\ auth_key = [t \in Tasks |-> None]
    /\ outcomes = [t \in Tasks |-> <<>>]
    /\ quota_cb = [t \in Tasks |-> <<>>]
    /\ progress_cb = [t \in Tasks |-> <<>>]
    /\ status_cb = [t \in Tasks |-> <<>>]
    /\ error_cb = 0
    /\ saved = [t \in Tasks |-> <<>>]
    /\ sleeps = [t \in Tasks |-> 0]
    /\ status_label = STATUS_IDLE
    /\ stopped_during = [t \in Tasks |-> "no"]
    /\ overlapped = [t \in Tasks |-> FALSE]

\* ------------------------------------------- Translator.start_translation
\* the call is the (nCalls+1)-th; a submitted call becomes task nCalls+1
StartNoKey ==
    /\ nCalls < MaxCalls
    /\ ~HasApiKey(deepl_api_key)
    /\ error_cb' = error_cb + 1
    /\ nCalls' = nCalls + 1
    /\ UNCHANGED <<deepl_api_key, config_has_DeepL, should_stop, translated_count,
                   used_quota, current_translation, executor, pool>>
    /\ UNCHANGED <<worker, history>>
    /\ UNCHANGED <<requests, outcomes, quota_cb, progress_cb, status_cb, saved>>
    /\ UNCHANGED sleeps
    /\ UNCHANGED status_label
    /\ UNCHANGED auth_key

StartSrt(ext) ==
    /\ nCalls < MaxCalls
    /\ HasApiKey(deepl_api_key)
    /\ IsSrt(ext)
    /\ LET t == nCalls + 1 IN
        /\ should_stop' = FALSE
        /\ status_cb' = [status_cb EXCEPT ![t] = Append(@, STATUS_TRANSLATION_STARTED)]
        /\ status_label' = update_status(STATUS_TRANSLATION_STARTED)
        /\ current_translation' = t
        /\ pc' = [pc EXCEPT ![t] = "pending"]
        /\ task_exec' = [task_exec EXCEPT ![t] = executor]
    /\ nCalls' = nCalls + 1
    /\ UNCHANGED <<deepl_api_key, config_has_DeepL, translated_count, used_quota,
                   executor, pool>>
    /\ UNCHANGED <<subtitles, total_subtitles, idx, local, history>>
    /\ UNCHANGED <<requests, outcomes, quota_cb, progress_cb, error_cb, saved>>
    /\ UNCHANGED sleeps
    /\ UNCHANGED auth_key

StartNotSrt(ext) ==
    /\ nCalls < MaxCalls
    /\ HasApiKey(deepl_api_key)
    /\ ~IsSrt(ext)
    /\ should_stop' = FALSE
    /\ nCalls' = nCalls + 1
    /\ UNCHANGED <<deepl_api_key, config_has_DeepL, translated_count, used_quota,
                   current_translation, executor, pool>>
    /\ UNCHANGED <<worker, observer, history>>
    /\ UNCHANGED status_label

start_translation(ext) == StartNoKey \/ StartSrt(ext) \/ StartNotSrt(ext)

\* -------------------------------------------- Translator.stop_translation
\* Future.cancel() cancels a work item that no worker has taken yet and
\* does nothing to one that is running or done
stop_translation ==
    /\ should_stop' = TRUE
    /\ pc' = [t \in Tasks |->
                IF t = current_translation /\ pc[t] = "pending" THEN "cancelled" ELSE pc[t]]
    /\ stopped_during' = [t \in Tasks |->
                IF Active(t) THEN "active"
                ELSE IF pc[t] = "pending" /\ stopped_during[t] = "no" THEN "pending"
                ELSE stopped_during[t]]
    /\ UNCHANGED <<deepl_api_key, config_has_DeepL, translated_count, used_quota,
                   current_translation, executor, pool, nCalls>>
    /\ UNCHANGED <<task_exec, subtitles, total_subtitles, idx, local>>
    /\ UNCHANGED <<observer, overlapped>>

\* ----------------------------------------- TranslatorGUI.stop_translation
\* the handler of the Stop Translation button
GUI_stop_translation ==
    /\ stop_translation
    /\ status_label' = update_status(STATUS_IDLE)

\* ------------------------------------------------- TranslatorGUI handlers
\* The three configuration handlers are explored while start_translation
\* calls remain within MaxCalls: what they write is read by start_translation
\* and by the requests of the runs that are then active.
\* api_key is what the dialog returned (None when it was dismissed)
update_api_key(api_key) ==
    /\ nCalls < MaxCalls
    /\ IF Truthy(api_key)
          THEN /\ deepl_api_key' = api_key
               /\ config_has_DeepL' = TRUE
          ELSE UNCHANGED <<deepl_api_key, config_has_DeepL>>
    /\ UNCHANGED <<should_stop, translated_count, used_quota, current_translation,
                   executor, pool, nCalls>>
    /\ UNCHANGED <<worker, observer, history>>
    /\ UNCHANGED status_label

delete_api_key(yes) ==
    /\ nCalls < MaxCalls
    /\ IF yes /\ config_has_DeepL
          THEN /\ config_has_DeepL' = FALSE
               /\ deepl_api_key' = None
          ELSE UNCHANGED <<deepl_api_key, config_has_DeepL>>
    /\ UNCHANGED <<should_stop, translated_count, used_quota, current_translation,
                   executor, pool, nCalls>>
    /\ UNCHANGED <<worker, observer, history>>
    /\ UNCHANGED status_label

set_thread_count(thread_count) ==
    /\ nCalls < MaxCalls
    /\ Len(pool) < MaxExecutors
    /\ pool' = Append(pool, thread_count)
    /\ executor' = Len(pool) + 1
    /\ UNCHANGED <<deepl_api_key, config_has_DeepL, should_stop, translated_count,
                   used_quota, current_translation, nCalls>>
    /\ UNCHANGED <<worker, observer, history>>
    /\ UNCHANGED status_label


\* -------------------------------------------------- Translator.translate_srt
\* a worker thread takes the work item: pysrt.open, total_subtitles and the
\* reset of the shared counter.  The extension test at the top of
\* translate_srt repeats, on the same file_path, the one start_translation
\* made before submitting, so it passes for every submitted task.
Begin(t, n) ==
    /\ CanRun(t)
    /\ subtitles' = [subtitles EXCEPT ![t] = ParseDoc(n)]
    /\ total_subtitles' = [total_subtitles EXCEPT ![t] = Len(ParseDoc(n))]
    /\ translated_count' = 0
    /\ idx' = [idx EXCEPT ![t] = 1]
    /\ pc' = [pc EXCEPT ![t] = "loop"]
    /\ LET others == {u \in Tasks \ {t} : Active(u)} IN
          overlapped' = [u \in Tasks |->
                           overlapped[u] \/ (u = t /\ others # {}) \/ (u \in others)]
    /\ UNCHANGED <<deepl_api_key, config_has_DeepL, should_stop, used_quota,
                   current_translation, executor, pool, nCalls>>
    /\ UNCHANGED <<task_exec, local, observer, stopped_during>>
    /\ UNCHANGED status_label

\* the for statement has a next entry, the stop flag is set: return
ObserveStop(t) ==
    /\ pc[t] = "loop"
    /\ idx[t] <= total_subtitles[t]
    /\ should_stop
    /\ pc' = [pc EXCEPT ![t] = PcAfterStop]
    /\ saved' = [saved EXCEPT ![t] = SavedOnStop(t)]
    /\ UNCHANGED <<shared, history>>
    /\ UNCHANGED <<task_exec, subtitles, total_subtitles, idx, local>>
    /\ UNCHANGED <<requests, outcomes, quota_cb, progress_cb, status_cb, error_cb>>
    /\ UNCHANGED sleeps
    /\ UNCHANGED status_label
    /\ UNCHANGED auth_key

\* the for statement has a next entry, the stop flag is clear: requests.post
SendRequest(t) ==
    /\ pc[t] = "loop"
    /\ idx[t] <= total_subtitles[t]
    /\ ~should_stop
    /\ requests' = [requests EXCEPT ![t] = Append(@, idx[t])]
    /\ auth_key' = [auth_key EXCEPT ![t] = deepl_api_key]
    /\ pc' = [pc EXCEPT ![t] = "inflight"]
    /\ UNCHANGED <<shared, history>>
    /\ UNCHANGED <<task_exec, subtitles, total_subtitles, idx, local>>
    /\ UNCHANGED <<outcomes, quota_cb, progress_cb, status_cb, error_cb, saved>>
    /\ UNCHANGED sleeps
    /\ UNCHANGED status_label

\* the response is decoded: subtitle.text is replaced and the read half of
\* self.used_quota += len(subtitle.text) is done
Succeed(t, tr) ==
    /\ pc[t] = "inflight"
    /\ subtitles' = [subtitles EXCEPT ![t][idx[t]] = Translated(@, tr)]
    /\ outcomes' = [outcomes EXCEPT ![t] = Append(@, "ok")]
    /\ local' = [local EXCEPT ![t] = used_quota]
    /\ pc' = [pc EXCEPT ![t] = "uq_write"]
    /\ UNCHANGED <<shared, history>>
    /\ UNCHANGED <<task_exec, total_subtitles, idx>>
    /\ UNCHANGED <<requests, quota_cb, progress_cb, status_cb, error_cb, saved>>
    /\ UNCHANGED sleeps
    /\ UNCHANGED status_label
    /\ UNCHANGED auth_key

\* the write half of self.used_quota += len(subtitle.text)
WriteQuota(t) ==
    /\ pc[t] = "uq_write"
    /\ used_quota' = local[t] + QuotaAdded(subtitles[t][idx[t]].text)
    /\ pc' = [pc EXCEPT ![t] = "tc_read"]
    /\ UNCHANGED <<deepl_api_key, config_has_DeepL, should_stop, translated_count,
                   current_translation, executor, pool, nCalls>>
    /\ UNCHANGED <<task_exec, subtitles, total_subtitles, idx, local>>
    /\ UNCHANGED <<observer, history>>
    /\ UNCHANGED status_label

\* the read half of self.translated_count += 1
ReadCount(t) ==
    /\ pc[t] = "tc_read"
    /\ local' = [local EXCEPT ![t] = translated_count]
    /\ pc' = [pc EXCEPT ![t] = "tc_write"]
    /\ UNCHANGED <<shared, history, observer>>
    /\ UNCHANGED <<task_exec, subtitles, total_subtitles, idx>>
    /\ UNCHANGED status_label

\* the write half of self.translated_count += 1
WriteCount(t) ==
    /\ pc[t] = "tc_write"
    /\ translated_count' = Incremented(local[t])
    /\ pc' = [pc EXCEPT ![t] = "quota_cb"]
    /\ UNCHANGED <<deepl_api_key, config_has_DeepL, should_stop, used_quota,
                   current_translation, executor, pool, nCalls>>
    /\ UNCHANGED <<task_exec, subtitles, total_subtitles, idx, local>>
    /\ UNCHANGED <<observer, history>>
    /\ UNCHANGED status_label

\* callback_dict["quota_callback"](self.used_quota)
QuotaCallback(t) ==
    /\ pc[t] = "quota_cb"
    /\ quota_cb' = [quota_cb EXCEPT ![t] = Append(@, used_quota)]
    /\ pc' = [pc EXCEPT ![t] = "progress_cb"]
    /\ UNCHANGED <<shared, history>>
    /\ UNCHANGED <<task_exec, subtitles, total_subtitles, idx, local>>
    /\ UNCHANGED <<requests, outcomes, progress_cb, status_cb, error_cb, saved>>
    /\ UNCHANGED sleeps
    /\ UNCHANGED status_label
    /\ UNCHANGED auth_key

\* callback_dict["progress_callback"](self.translated_count / total_subtitles),
\* the sleep, and the step to the next entry; the fraction is kept as the
\* pair <<numerator, denominator>>
ProgressCallback(t) ==
    /\ pc[t] = "progress_cb"
    /\ progress_cb' = [progress_cb EXCEPT
                         ![t] = Append(@, Fraction(translated_count, total_subtitles[t], idx[t]))]
    /\ sleeps' = [sleeps EXCEPT ![t] = @ + 1]
    /\ idx' = [idx EXCEPT ![t] = NextIndex(@)]
    /\ pc' = [pc EXCEPT ![t] = "loop"]
    /\ UNCHANGED <<shared, history>>
    /\ UNCHANGED <<task_exec, subtitles, total_subtitles, local>>
    /\ UNCHANGED <<requests, outcomes, quota_cb, status_cb, error_cb, saved>>
    /\ UNCHANGED status_label
    /\ UNCHANGED auth_key

\* raise_for_status, the transport or the decoding raised: the except
\* clause logs and continues with the next entry
Fail(t, kind) ==
    /\ pc[t] = "inflight"
    /\ kind \in Failures
    /\ outcomes' = [outcomes EXCEPT ![t] = Append(@, "failed")]
    /\ idx' = [idx EXCEPT ![t] = NextIndex(@)]
    /\ pc' = [pc EXCEPT ![t] = PcAfterFailure]
    /\ UNCHANGED <<shared, history>>
    /\ UNCHANGED <<task_exec, subtitles, total_subtitles, local>>
    /\ UNCHANGED <<requests, quota_cb, progress_cb, status_cb, error_cb, saved>>
    /\ UNCHANGED sleeps
    /\ UNCHANGED status_label
    /\ UNCHANGED auth_key

\* the for statement is exhausted: subtitles.save(output_path)
Save_unsaved(t) ==
    /\ pc[t] = "loop"
    /\ idx[t] > total_subtitles[t]
    /\ pc' = [pc EXCEPT ![t] = "status"]
    /\ UNCHANGED <<shared, history>>
    /\ UNCHANGED <<task_exec, subtitles, total_subtitles, idx, local>>
    /\ UNCHANGED <<requests, outcomes, quota_cb, progress_cb, status_cb, error_cb, saved>>
    /\ UNCHANGED sleeps
    /\ UNCHANGED status_label
    /\ UNCHANGED auth_key

Save(t) ==
    /\ pc[t] = "loop"
    /\ idx[t] > total_subtitles[t]
    /\ saved' = [saved EXCEPT ![t] = <<subtitles[t]>>]
    /\ pc' = [pc EXCEPT ![t] = "status"]
    /\ UNCHANGED <<shared, history>>
    /\ UNCHANGED <<task_exec, subtitles, total_subtitles, idx, local>>
    /\ UNCHANGED <<requests, outcomes, quota_cb, progress_cb, status_cb, error_cb>>
    /\ UNCHANGED sleeps
    /\ UNCHANGED status_label
    /\ UNCHANGED auth_key

\* callback_dict["status_callback"](STATUS_TRANSLATION_COMPLETED)
StatusCallback(t) ==
    /\ pc[t] = "status"
    /\ status_cb' = [status_cb EXCEPT ![t] = Append(@, CompletedStatus)]
    /\ status_label' = update_status(CompletedStatus)
    /\ pc' = [pc EXCEPT ![t] = "finished"]
    /\ UNCHANGED <<shared, history>>
    /\ UNCHANGED <<task_exec, subtitles, total_subtitles, idx, local>>
    /\ UNCHANGED <<requests, outcomes, quota_cb, progress_cb, error_cb, saved>>
    /\ UNCHANGED sleeps
    /\ UNCHANGED auth_key

\* ------------------------------------------------------------------ Next
Next ==
    \/ \E ext \in Exts : start_translation(ext)
    \/ GUI_stop_translation
    \/ \E api_key \in Keys : update_api_key(api_key)
    \/ \E yes \in BOOLEAN : delete_api_key(yes)
    \/ \E thread_count \in 1..MaxThreads : set_thread_count(thread_count)
    \/ \E t \in Tasks, n \in 0..MaxEntries : Begin(t, n)
    \/ \E t \in Tasks : ObserveStop(t)
    \/ \E t \in Tasks : SendRequest(t)
    \/ \E t \in Tasks, tr \in TransTexts : Succeed(t, tr)
    \/ \E t \in Tasks : WriteQuota(t)
    \/ \E t \in Tasks : ReadCount(t)
    \/ \E t \in Tasks : WriteCount(t)
    \/ \E t \in Tasks : QuotaCallback(t)
    \/ \E t \in Tasks : ProgressCallback(t)
    \/ \E t \in Tasks, kind \in Failures : Fail(t, kind)
    \/ \E t \in Tasks : Save(t)
    \/ \E t \in Tasks : StatusCallback(t)

Spec == Init /\ [][Next]_vars

\* ------------------------------------------------------------- fairness
\* a step of the worker thread that runs task t; a request in flight ends
\* with a response or with an exception
WorkerStep(t) ==
    \/ \E n \in 0..MaxEntries : Begin(t, n)
    \/ ObserveStop(t)
    \/ SendRequest(t)
    \/ \E tr \in TransTexts : Succeed(t, tr)
    \/ WriteQuota(t)
    \/ ReadCount(t)
    \/ WriteCount(t)
    \/ QuotaCallback(t)
    \/ ProgressCallback(t)
    \/ \E kind \in Failures : Fail(t, kind)
    \/ Save(t)
    \/ StatusCallback(t)

\* the handlers of the Translator and of the Stop button, with the workers
NextRuns ==
    \/ \E ext \in Exts : start_translation(ext)
    \/ GUI_stop_translation
    \/ \E t \in Tasks : WorkerStep(t)

\* every worker thread that can take a step eventually takes one
SpecFair == Init /\ [][NextRuns]_vars /\ \A t \in Tasks : WF_vars(WorkerStep(t))


\* ================================================================ claims
Range(f) == {f[j] : j \in DOMAIN f}

\* the entries of task t whose request succeeded
OkEntries(t) == {j \in 1..Len(outcomes[t]) : outcomes[t][j] = "ok"}

NumOk(t) == Cardinality(OkEntries(t))

RECURSIVE SumLen(_, _)
SumLen(doc, js) ==
    IF js = {} THEN 0
    ELSE LET j == CHOOSE x \in js : TRUE IN Len(doc[j].text) + SumLen(doc, js \ {j})

\* sum of the lengths of the translated texts of the succeeded entries of t
SumOk(t) == SumLen(subtitles[t], OkEntries(t))

RECURSIVE SumAllOk(_)
SumAllOk(ts) ==
    IF ts = {} THEN 0
    ELSE LET t == CHOOSE x \in ts : TRUE IN SumOk(t) + SumAllOk(ts \ {t})

\* C1: at most one translate_srt run is active at a time.
C1_AtMostOneActive == Cardinality({t \in Tasks : Active(t)}) <= 1

\* C2: in a run that is never stopped a failed request never ends the run:
\* the run does not return early, entries are requested in order 1, 2, ...,
\* a failed entry keeps its original text, and the finished run has requested
\* every entry, saved the document and reported 'Translation completed'.
C2_FailureNeverEndsRun ==
    \A t \in Tasks :
        /\ stopped_during[t] = "no" => pc[t] \notin {"returned", "cancelled"}
        /\ requests[t] = [j \in 1..Len(requests[t]) |-> j]
        /\ pc[t] = "loop" => Len(requests[t]) = idx[t] - 1 /\ Len(outcomes[t]) = idx[t] - 1
        /\ \A j \in 1..Len(outcomes[t]) :
              outcomes[t][j] = "failed" => subtitles[t][j].text = OrigText
        /\ pc[t] = "finished" =>
              /\ Len(requests[t]) = total_subtitles[t]
              /\ saved[t] = <<subtitles[t]>>
              /\ status_cb[t] = <<STATUS_TRANSLATION_STARTED, STATUS_TRANSLATION_COMPLETED>>

C2_Witness ==
    \E t \in Tasks :
        /\ pc[t] = "finished"
        /\ stopped_during[t] = "no"
        /\ outcomes[t] = <<"failed", "ok">>

\* C3 (as claimed): after a completed run over N entries, alone on the
\* Translator, translated_count equals N whatever entries failed.
C3_CountsAttempts ==
    \A t \in Tasks :
        (pc[t] = "status" /\ ~overlapped[t]) => translated_count = total_subtitles[t]

\* C3 (amended): translated_count counts successes: in a run during which no
\* other run is active it equals, between entries and after the loop, the
\* number of entries processed so far whose request succeeded.
C3_CountsSuccesses ==
    \A t \in Tasks :
        (pc[t] \in {"loop", "inflight", "status"} /\ ~overlapped[t])
            => translated_count = NumOk(t)

C3_Witness ==
    \E t \in Tasks :
        /\ pc[t] = "status"
        /\ ~overlapped[t]
        /\ outcomes[t] = <<"ok", "failed">>
        /\ translated_count = 1

\* C4 (as claimed): a completed run over N entries delivers exactly N
\* progress notifications, strictly increasing, the last one 1.0.
C4_NProgressEndingAtOne ==
    \A t \in Tasks :
        (pc[t] \in {"status", "finished"} /\ ~overlapped[t]) =>
            /\ Len(progress_cb[t]) = total_subtitles[t]
            /\ \A j \in 1..Len(progress_cb[t]) - 1 :
                  progress_cb[t][j][1] * progress_cb[t][j + 1][2]
                      < progress_cb[t][j + 1][1] * progress_cb[t][j][2]
            /\ progress_cb[t] # <<>> =>
                  progress_cb[t][Len(progress_cb[t])][1] = progress_cb[t][Len(progress_cb[t])][2]

\* C4 (amended): a completed run delivers exactly one progress notification
\* per succeeded entry; when no other run was active during it the fractions
\* are 1/N, 2/N, ..., S/N for S succeeded entries, so they are strictly
\* increasing and end at 1.0 only if every entry succeeded.
C4_ProgressPerSuccess ==
    \A t \in Tasks :
        pc[t] \in {"status", "finished"} =>
            /\ Len(progress_cb[t]) = NumOk(t)
            /\ ~overlapped[t] =>
                  progress_cb[t] = [j \in 1..NumOk(t) |-> <<j, total_subtitles[t]>>]

C4_Witness ==
    \E t \in Tasks :
        /\ pc[t] = "finished"
        /\ ~overlapped[t]
        /\ outcomes[t] = <<"failed", "ok">>
        /\ progress_cb[t] = <<<<1, 2>>>>

\* C5 (as claimed): a run cancelled after k < N entries still saves a
\* document to the output path.
C5_CancelledRunSaves ==
    \A t \in Tasks : pc[t] = "returned" => saved[t] # <<>>

\* C5 (amended): a run cancelled after k < N entries saves nothing and
\* reports no completion; the document it drops has the first k entries
\* translated or original and the remaining N-k entries original.
C5_CancelledRunNotSaved ==
    \A t \in Tasks :
        pc[t] = "returned" =>
            /\ saved[t] = <<>>
            /\ STATUS_TRANSLATION_COMPLETED \notin Range(status_cb[t])
            /\ idx[t] <= total_subtitles[t]
            /\ \A j \in 1..(idx[t] - 1) : subtitles[t][j].text \in TransTexts \cup {OrigText}
            /\ \A j \in idx[t]..total_subtitles[t] : subtitles[t][j].text = OrigText

C5_Witness ==
    \E t \in Tasks :
        /\ pc[t] = "returned"
        /\ idx[t] = 2
        /\ total_subtitles[t] = 2
        /\ subtitles[t][1].text \in TransTexts

\* C6: once stop_translation was called while a run was active, that run
\* sends no further translation request.
C6_NoRequestAfterStop ==
    [][\A t \in Tasks : stopped_during[t] = "active" => requests'[t] = requests[t]]_vars

\* a missing (None), empty or whitespace-only key
C7_Blank(key) == key = None \/ \A j \in 1..Len(key) : key[j] = " "

\* C7: a start_translation call with a missing, empty or blank key delivers
\* one error, submits nothing, delivers no status, progress or quota
\* notification and leaves should_stop, current_translation and the counters.
C7_NoKeyStartRejected ==
    [][(nCalls' = nCalls + 1 /\ C7_Blank(deepl_api_key)) =>
          /\ error_cb' = error_cb + 1
          /\ UNCHANGED <<should_stop, current_translation, translated_count, used_quota>>
          /\ UNCHANGED <<pc, task_exec, status_cb, progress_cb, quota_cb, requests, saved>>]_vars

C7_Witness ==
    /\ nCalls = 2
    /\ error_cb = 1
    /\ deepl_api_key = <<" ">>
    /\ should_stop
    /\ pc[1] = "inflight"

\* C8 (as claimed): a job on a document with 0 entries sends no request,
\* reports progress 1.0 and reports 'Translation completed'.
C8_EmptyReportsFullProgress ==
    \A t \in Tasks :
        (pc[t] = "finished" /\ total_subtitles[t] = 0) =>
            /\ requests[t] = <<>>
            /\ \E j \in 1..Len(progress_cb[t]) : progress_cb[t][j][1] = progress_cb[t][j][2]
            /\ STATUS_TRANSLATION_COMPLETED \in Range(status_cb[t])

\* C8 (amended): a job on a document with 0 entries sends no request,
\* delivers no progress and no quota notification, saves the empty
\* document and reports 'Translation completed'.
C8_EmptyCompletesSilently ==
    \A t \in Tasks :
        (pc[t] = "finished" /\ total_subtitles[t] = 0) =>
            /\ requests[t] = <<>>
            /\ progress_cb[t] = <<>>
            /\ quota_cb[t] = <<>>
            /\ saved[t] = <<ParseDoc(0)>>
            /\ status_cb[t] = <<STATUS_TRANSLATION_STARTED, STATUS_TRANSLATION_COMPLETED>>

C8_Witness ==
    \E t \in Tasks : pc[t] = "finished" /\ total_subtitles[t] = 0

\* C9 (as claimed): after any run, alone on the Translator while it ran,
\* used_quota (as get_quota returns it) is the sum of the lengths of the
\* translated texts of that run's succeeded entries.
C9_QuotaOfThatRun ==
    \A t \in Tasks :
        (pc[t] = "status" /\ ~overlapped[t]) => get_quota[2] = SumOk(t)

\* C9 (amended): used_quota is never reset: it never exceeds the sum over
\* all runs so far of the lengths of the translated texts of their succeeded
\* entries, equals that sum whenever no two runs have overlapped and no
\* addition is half done, and is then the value the run last passed to
\* quota_callback.
C9_QuotaCumulative ==
    /\ get_quota[2] <= SumAllOk(Tasks)
    /\ ((\A t \in Tasks : ~overlapped[t] /\ pc[t] # "uq_write")
            => get_quota[2] = SumAllOk(Tasks))
    /\ \A t \in Tasks :
          (pc[t] = "status" /\ ~overlapped[t] /\ quota_cb[t] # <<>>)
              => quota_cb[t][Len(quota_cb[t])] = get_quota[2]

C9_Witness ==
    /\ pc[1] = "finished" /\ NumOk(1) = 1
    /\ pc[2] = "status" /\ NumOk(2) = 1
    /\ ~overlapped[2]
    /\ used_quota = SumOk(1) + SumOk(2)

\* C10: the processed-entries counter a job is about to report is at most
\* the job's total and every fraction passed to progress_callback is in
\* 0.0..1.0.
C10_ProgressWithinTotal ==
    \A t \in Tasks :
        /\ pc[t] = "progress_cb" => translated_count <= total_subtitles[t]
        /\ \A j \in 1..Len(progress_cb[t]) : progress_cb[t][j][1] <= progress_cb[t][j][2]

\* C11: the value of used_quota that get_quota calls and quota_callback
\* notifications observe never decreases.
C11_QuotaNeverDecreases == [][used_quota' >= used_quota]_vars

\* notifications a run has delivered once pc[t] is reached, given d
\* succeeded entries: the quota notification of the entry being applied
\* comes before its progress notification
C12_QuotaDue(t) ==
    NumOk(t) - (IF pc[t] \in {"uq_write", "tc_read", "tc_write", "quota_cb"} THEN 1 ELSE 0)

C12_ProgressDue(t) ==
    NumOk(t) - (IF pc[t] \in {"uq_write", "tc_read", "tc_write", "quota_cb", "progress_cb"}
                   THEN 1 ELSE 0)

\* C12 (as claimed): entries are requested in document order, each after the
\* outcome of the one before, and one quota/progress pair is delivered per
\* processed entry, in that order.
C12_PairPerProcessedEntry ==
    \A t \in Tasks :
        /\ requests[t] = [j \in 1..Len(requests[t]) |-> j]
        /\ pc[t] = "loop" =>
              /\ Len(quota_cb[t]) = idx[t] - 1
              /\ Len(progress_cb[t]) = idx[t] - 1

\* C12 (amended): entries are requested in document order, entry i+1 only
\* after the outcome of entry i was applied and its notifications delivered;
\* one quota notification and then one progress notification is delivered
\* per succeeded entry, none for a failed entry.
C12_PairPerSucceededEntry ==
    \A t \in Tasks :
        /\ requests[t] = [j \in 1..Len(requests[t]) |-> j]
        /\ Len(outcomes[t]) = Len(requests[t]) - (IF pc[t] = "inflight" THEN 1 ELSE 0)
        /\ Len(quota_cb[t]) = C12_QuotaDue(t)
        /\ Len(progress_cb[t]) = C12_ProgressDue(t)

C12_Witness ==
    \E t \in Tasks :
        /\ pc[t] = "progress_cb"
        /\ outcomes[t] = <<"failed", "ok">>
        /\ Len(quota_cb[t]) = 1
        /\ progress_cb[t] = <<>>

\* the index and the timing of the entries of a document
C15_Frame(doc) == [j \in 1..Len(doc) |-> <<doc[j].index, doc[j].start, doc[j].end>>]

\* C15: a run changes only the text of entries: the document a run holds,
\* and the one it saves, has the entries of the parsed input with their
\* order, index, start and end times.
C15_OnlyTextChanges ==
    \A t \in Tasks :
        /\ C15_Frame(subtitles[t]) = C15_Frame(ParseDoc(total_subtitles[t]))
        /\ saved[t] # <<>> =>
              /\ saved[t] = <<subtitles[t]>>
              /\ C15_Frame(saved[t][1]) = C15_Frame(ParseDoc(total_subtitles[t]))

C15_Witness ==
    \E t \in Tasks :
        /\ saved[t] # <<>>
        /\ Len(saved[t][1]) = 2
        /\ saved[t][1][1].text \in TransTexts
        /\ saved[t][1][2].text = OrigText

\* C18: a start_translation call with a key and a file that is not .srt (the
\* call is counted, submits no task and reports no missing key) submits no
\* work, sends no request, delivers no status notification and leaves
\* should_stop and current_translation as they were.
C18_NotSrtStartChangesNothing ==
    [][(nCalls' = nCalls + 1 /\ pc' = pc /\ error_cb' = error_cb) =>
          /\ requests' = requests
          /\ status_cb' = status_cb
          /\ current_translation' = current_translation
          /\ should_stop' = should_stop]_vars

\* the number of 'Translation completed' notifications of a run
C19_Completed(t) ==
    Cardinality({j \in 1..Len(status_cb[t]) : status_cb[t][j] = STATUS_TRANSLATION_COMPLETED})

\* C19: 'Translation completed' is delivered at most once per run, only by a
\* run that requested every entry and left the loop by exhausting it, only
\* after the document was saved; a run that returned on the stop flag
\* delivered no status notification.
C19_CompletedOnceAfterSave ==
    \A t \in Tasks :
        /\ C19_Completed(t) <= 1
        /\ C19_Completed(t) = 1 =>
              /\ pc[t] = "finished"
              /\ saved[t] # <<>>
              /\ requests[t] = [j \in 1..total_subtitles[t] |-> j]
              /\ Len(outcomes[t]) = total_subtitles[t]
        /\ pc[t] = "returned" => C19_Completed(t) = 0

C19_Witness ==
    \E t \in Tasks :
        /\ C19_Completed(t) = 1
        /\ total_subtitles[t] = 2
        /\ \E u \in Tasks : pc[u] = "returned" /\ requests[u] # <<>>

\* C16: a worker sleeps SLEEP_TIME between any two consecutive requests of
\* its run, whether the earlier one succeeded or failed.
C16_SleepBetweenRequests ==
    \A t \in Tasks : requests[t] # <<>> => sleeps[t] >= Len(requests[t]) - 1

\* the job state a text of status_label reports
C13_JobState(label) ==
    IF label = update_status(STATUS_TRANSLATION_STARTED) THEN "Running"
    ELSE IF label = update_status(STATUS_TRANSLATION_COMPLETED) THEN "Completed"
    ELSE "Idle"

\* C13: the reported job state stays as it is or moves along Idle -> Running,
\* Running -> Completed, Running -> Idle (a cancellation) or, for the next
\* job, Completed -> Running or Completed -> Idle; it becomes Idle only when
\* no worker is still running or waiting, and never goes from Idle to
\* Completed.
C13_JobStateTransitions ==
    [][LET old == C13_JobState(status_label)
           new == C13_JobState(status_label')
       IN  /\ \/ old = new
              \/ <<old, new>> \in {<<"Idle", "Running">>, <<"Running", "Completed">>,
                                   <<"Running", "Idle">>, <<"Completed", "Running">>,
                                   <<"Completed", "Idle">>}
           /\ (old # "Idle" /\ new = "Idle") =>
                 \A t \in Tasks : pc'[t] # "pending" /\ pc'[t] \notin ActivePcs]_vars

\* C14: every request of a run after its first carries the credential of the
\* request before it, whatever update_api_key and delete_api_key did in
\* between, and a submitted task stays with its executor, whose max_workers
\* does not change.
C14_RunKeepsCredentialAndPool ==
    [][\A t \in Tasks :
          /\ (requests'[t] # requests[t] /\ requests[t] # <<>>) => auth_key'[t] = auth_key[t]
          /\ pc[t] # "none" =>
                /\ task_exec'[t] = task_exec[t]
                /\ pool'[task_exec[t]] = pool[task_exec[t]]]_vars

\* C17: when stop_translation is called while the request for entry i of a
\* run is in flight (the flag is set and the request is out: SendRequest
\* needs the flag clear, so the call came after it), the run requests no
\* entry after i from then on.
C17_InFlightThenExit ==
    \A t \in Tasks : \A i \in 1..MaxEntries :
        [](( should_stop /\ pc[t] = "inflight" /\ idx[t] = i) => [](Len(requests[t]) <= i))

\* C20: every run that start_translation submitted eventually ends: it
\* finishes the loop, returns on the stop flag, or is cancelled before a
\* worker took it; and no run requests an entry twice.
C20_EveryRunTerminates ==
    /\ \A t \in Tasks : (pc[t] = "pending") ~> (pc[t] \in {"finished", "returned", "cancelled"})
    /\ [](\A t \in Tasks : \A j, k \in 1..Len(requests[t]) :
             j < k => requests[t][j] < requests[t][k])

C20_Witness ==
    \E t \in Tasks :
        /\ pc[t] = "finished"
        /\ outcomes[t] = <<"failed", "failed">>
        /\ stopped_during[t] = "active"

====
